---- MODULE Spec2Model ----
(***************************************************************************)
(* Model of src/app.py: an ephemeral file store.  FileDatabase keeps one   *)
(* JSON document {"files": {...}, "stats": {...}}; uploads are streamed to *)
(* one of STORAGE_PATHS; download/info/delete look the record up; expired  *)
(* records are removed by cleanup_expired_files at startup.                *)
(*                                                                         *)
(* Scheduling: every handler is an `async def` run by one event loop, so a *)
(* handler runs without interruption between two `await`s.  The only await *)
(* of the program is `await file.read(CHUNK_SIZE)` (line 127): an upload   *)
(* is therefore a sequence of steps (start, one per chunk, finish), every  *)
(* other handler is a single step.                                         *)
(***************************************************************************)
EXTENDS Integers, Sequences, FiniteSets, TLC

\* ---------------------------------------------------------------- bounds
\* number of handles uuid4() hands out in one run
MaxHandles == 2
\* the clock runs from 0 to MaxTime ticks
MaxTime == 1

\* ------------------------------------------------------ program constants
\* STORAGE_PATHS (line 12), in declaration order
STORAGE_PATHS == <<"/storage", "/storage2", "/storage3">>
\* MAX_FILE_SIZE (line 13), scaled down from 5 GiB to bytes of the model
MAX_FILE_SIZE == 2
\* CHUNK_SIZE (line 16), scaled down from 8192
CHUNK_SIZE == 1
\* ticks of the clock in timedelta(seconds=1) (line 121), scaled down from
\* the 10^6 microseconds of datetime
TicksPerSecond == 2

Paths == {STORAGE_PATHS[i] : i \in 1..Len(STORAGE_PATHS)}
Handles == 1..MaxHandles
\* expires_in, in seconds: expired at once, or after a second
ExpiresIn == {0, 1}
\* file.size as the request declares it: 0 stands for None or 0, then the
\* limit itself and one byte more
SizeHints == {0, MAX_FILE_SIZE, MAX_FILE_SIZE + 1}
\* longest stream a client sends: one chunk past the limit
MaxStream == MAX_FILE_SIZE + CHUNK_SIZE
\* the byte a client sends at position i: neighbours differ, so that a
\* reordered, dropped or repeated byte shows in the content
StreamByte(i) == i % 2
\* the non-empty results file.read(CHUNK_SIZE) can give after `sent` bytes
Chunks(sent) ==
    {[i \in 1..n |-> StreamByte(Len(sent) + i)] :
        n \in 1..(IF MaxStream - Len(sent) < CHUNK_SIZE
                  THEN MaxStream - Len(sent) ELSE CHUNK_SIZE)}

VARIABLES
    db,        \* the JSON document of DB_FILE: [files, stats]
    disk,      \* files under the storage paths: <<path, file_id>> -> bytes
    uploads,   \* upload_file handlers suspended at `await file.read`
    next_id,   \* handles issued so far + 1 (uuid4 never repeats)
    now,       \* datetime.utcnow(), in ticks
    resp       \* the create or delete request the last step worked on and
               \* its answer (status 0: the upload is accepted and waits
               \* for its stream), NoResponse for any other step

vars == <<db, disk, uploads, next_id, now, resp>>

\* ------------------------------------------------------------ dict helpers
DictGet(d, k, default) == IF k \in DOMAIN d THEN d[k] ELSE default
DictPut(d, k, v) == [x \in (DOMAIN d) \cup {k} |-> IF x = k THEN v ELSE d[x]]
DictDel(d, k) == [x \in (DOMAIN d) \ {k} |-> d[x]]
EmptyDict == [x \in {} |-> 0]

\* ------------------------------------------------------------- timestamps
\* datetime.isoformat(): "<seconds>" when the microsecond field is 0,
\* "<seconds>.<fraction>" otherwise; both fields are fixed-width.
isoformat(t) ==
    IF t % TicksPerSecond = 0
    THEN <<t \div TicksPerSecond>>
    ELSE <<t \div TicksPerSecond, t % TicksPerSecond>>

\* datetime.fromisoformat(): a missing fraction reads as 0
fromisoformat(s) ==
    s[1] * TicksPerSecond + (IF Len(s) > 1 THEN s[2] ELSE 0)

\* Python's `<` on str: lexicographic, a proper prefix is smaller
RECURSIVE StrLess(_, _)
StrLess(a, b) ==
    IF b = <<>> THEN FALSE
    ELSE IF a = <<>> THEN TRUE
    ELSE IF Head(a) # Head(b) THEN Head(a) < Head(b)
    ELSE StrLess(Tail(a), Tail(b))

\* os.path.join(storage_path, file_id)
FilePath(storage_path, file_id) == <<storage_path, file_id>>

\* add_file writing back a document read when the upload began: what was
\* committed by uploads that began later is not in it
add_file_stale(d, file_id, file_data) ==
    LET seen == {h \in DOMAIN d.files : h < file_id}
        on_path(p) == {h \in seen : d.files[h].storage_path = p}
        files == DictPut([h \in seen |-> d.files[h]], file_id, file_data)
        stats == [p \in {d.files[h].storage_path : h \in seen} |->
                    Cardinality(on_path(p))]
        storage_path == file_data.storage_path
    IN [files |-> files,
        stats |-> DictPut(stats, storage_path,
                          DictGet(stats, storage_path, 0) + 1)]

\* ----------------------------------------------------------- FileDatabase
\* add_file that sets the counter to 1 instead of adding 1
add_file_resets(d, file_id, file_data) ==
    [files |-> DictPut(d.files, file_id, file_data),
     stats |-> DictPut(d.stats, file_data.storage_path, 1)]

\* FileDatabase.add_file (lines 36-44)
add_file(d, file_id, file_data) ==
    LET storage_path == file_data.storage_path IN
    [files |-> DictPut(d.files, file_id, file_data),
     stats |-> DictPut(d.stats, storage_path,
                       DictGet(d.stats, storage_path, 0) + 1)]

\* FileDatabase.get_file (lines 46-48); None is modelled by absence
has_file(d, file_id) == file_id \in DOMAIN d.files

\* the stats update of FileDatabase.delete_file (lines 57-60)
stats_after_delete(stats, storage_path) ==
    IF storage_path \in DOMAIN stats
    THEN IF stats[storage_path] - 1 <= 0
         THEN DictDel(stats, storage_path)
         ELSE DictPut(stats, storage_path, stats[storage_path] - 1)
    ELSE stats

\* delete_file without `del db["files"][file_id]`
db_delete_file_keeps_record(d, file_id) ==
    IF file_id \in DOMAIN d.files
    THEN [files |-> d.files,
          stats |-> stats_after_delete(d.stats,
                                       d.files[file_id].storage_path)]
    ELSE d

\* FileDatabase.delete_file (lines 50-65): the document afterwards
db_delete_file(d, file_id) ==
    IF file_id \in DOMAIN d.files
    THEN [files |-> DictDel(d.files, file_id),
          stats |-> stats_after_delete(d.stats,
                                       d.files[file_id].storage_path)]
    ELSE d

\* get_expired_files with the comparison turned round: selects the records
\* that are not yet expired
get_expired_files_inverted(d, t) ==
    {file_id \in DOMAIN d.files :
        StrLess(isoformat(t), d.files[file_id].expires_at)}

\* FileDatabase.get_expired_files (lines 67-70): compares the strings
get_expired_files(d, t) ==
    {file_id \in DOMAIN d.files :
        StrLess(d.files[file_id].expires_at, isoformat(t))}

\* ------------------------------------------------------------- placement
\* line 87: counts = {path: stats.get(path, 0) for path in STORAGE_PATHS},
\* as the list of its items in insertion order
counts_items(stats) ==
    [i \in 1..Len(STORAGE_PATHS) |->
        <<STORAGE_PATHS[i], DictGet(stats, STORAGE_PATHS[i], 0)>>]

\* a comparison that also replaces on equal keys: the last minimum wins
min_replaces_on_tie(key, best_key) == key <= best_key

\* a comparison the wrong way round: max() instead of min()
min_replaces_larger(key, best_key) == key > best_key

\* the comparison of min(): a later item replaces the best one so far
\* only when its key is smaller
min_replaces(key, best_key) == key < best_key

\* min(items, key=lambda x: x[1]) (line 88): one pass over the items
RECURSIVE min_by_count(_, _, _)
min_by_count(items, i, best) ==
    IF i > Len(items) THEN best
    ELSE min_by_count(items, i + 1,
            IF min_replaces(items[i][2], best[2]) THEN items[i] ELSE best)

\* select_storage_path (lines 84-88)
select_storage_path(stats) ==
    LET items == counts_items(stats)
    IN min_by_count(items, 2, items[1])[1]

\* ---------------------------------------------------------------- responses
NoBody == [none |-> TRUE]
Response(op, id, status, body) ==
    [op |-> op, id |-> id, status |-> status, body |-> body]
NoResponse == Response("none", 0, 0, NoBody)

Init ==
    /\ db = [files |-> EmptyDict, stats |-> EmptyDict]
    /\ disk = EmptyDict
    /\ uploads = EmptyDict
    /\ next_id = 1
    /\ now = 0
    /\ resp = NoResponse

\* ------------------------------------------------------------- upload_file
\* a size test that is off by one byte
size_refused_late(size_hint) ==
    size_hint # 0 /\ size_hint > MAX_FILE_SIZE + 1

\* lines 110-115: the declared size is refused before anything is read
\* (`file.size and ...`: None and 0 pass)
size_refused(size_hint) == size_hint # 0 /\ size_hint > MAX_FILE_SIZE

\* line 129: the running byte count is over the limit
too_large(file_size) == file_size > MAX_FILE_SIZE

\* lines 143-151: the metadata of a finished upload (original_name,
\* content_type and uploaded_at are stored and returned, never looked at).
\* expires_tick is not a field of the program: it keeps the instant that
\* expires_at was formatted from, for the properties to refer to.
file_data_of(file_id, u) ==
    [id |-> file_id,
     size |-> u.file_size,
     storage_path |-> u.storage_path,
     expires_at |-> u.expires_at,
     expires_tick |-> u.expires_tick]

\* f.write that stores nothing of the chunk (a short write)
f_write_short(content, chunk) == content

\* a write that starts at offset 0 again for every chunk
f_write_rewinds(content, chunk) ==
    chunk \o SubSeq(content, Len(chunk) + 1, Len(content))

\* line 135: f.write(chunk) on a file opened "wb"
f_write(content, chunk) == content \o chunk

\* lines 110-115: 413 on the declared size
upload_reject ==
    \E size_hint \in SizeHints :
        /\ size_refused(size_hint)
        /\ resp' = Response("upload", 0, 413, [size_hint |-> size_hint])
        /\ UNCHANGED <<db, disk, uploads, next_id, now>>

\* lines 110-127: from the call to the first `await file.read`; the run
\* hands out the handles 1..handles
upload_begin(handles) ==
    \E size_hint \in SizeHints, expires_in \in ExpiresIn :
        /\ ~size_refused(size_hint)
        /\ next_id <= handles
        /\ LET storage_path == select_storage_path(db.stats)
               file_id == next_id
               expires_at == isoformat(now + expires_in * TicksPerSecond)
           IN /\ uploads' = DictPut(uploads, file_id,
                    [storage_path |-> storage_path,
                     expires_at |-> expires_at,
                     expires_tick |-> now + expires_in * TicksPerSecond,
                     file_size |-> 0,
                     sent |-> <<>>])
              \* open(file_path, "wb") creates the file
              /\ disk' = DictPut(disk, FilePath(storage_path, file_id), <<>>)
        /\ next_id' = next_id + 1
        /\ resp' = Response("upload", next_id, 0, [size_hint |-> size_hint])
        /\ UNCHANGED <<db, now>>

upload_start == upload_begin(MaxHandles)

\* the 413 of lines 129-134 without os.remove(file_path)
upload_too_large_leaves_file(file_id) ==
    /\ file_id \in DOMAIN uploads
    /\ \E chunk \in Chunks(uploads[file_id].sent) :
        LET u == uploads[file_id]
            file_size == u.file_size + Len(chunk)
        IN /\ too_large(file_size)
           /\ uploads' = DictDel(uploads, file_id)
           /\ resp' = Response("upload", file_id, 413,
                        [storage_path |-> u.storage_path,
                         sent |-> u.sent \o chunk])
    /\ UNCHANGED <<db, disk, next_id, now>>

\* lines 127-134: a chunk takes the count over the limit; the partial file
\* is removed and 413 returned.  The file is there and os.remove finds it:
\* this handler created it at line 126 and still holds it open, and no
\* other handler touches the file of a handle that has no record.
upload_too_large(file_id) ==
    /\ file_id \in DOMAIN uploads
    /\ \E chunk \in Chunks(uploads[file_id].sent) :
        LET u == uploads[file_id]
            file_size == u.file_size + Len(chunk)
        IN /\ too_large(file_size)
           /\ disk' = DictDel(disk, FilePath(u.storage_path, file_id))
           /\ uploads' = DictDel(uploads, file_id)
           /\ resp' = Response("upload", file_id, 413,
                        [storage_path |-> u.storage_path,
                         sent |-> u.sent \o chunk])
    /\ UNCHANGED <<db, next_id, now>>

\* lines 127-135: a chunk is read and written
upload_chunk(file_id) ==
    /\ file_id \in DOMAIN uploads
    /\ \E chunk \in Chunks(uploads[file_id].sent) :
        LET u == uploads[file_id]
            file_size == u.file_size + Len(chunk)
            file_path == FilePath(u.storage_path, file_id)
        IN /\ ~too_large(file_size)
           /\ disk' = DictPut(disk, file_path, f_write(disk[file_path], chunk))
           /\ uploads' = DictPut(uploads, file_id,
                    [u EXCEPT !.file_size = file_size,
                              !.sent = u.sent \o chunk])
    /\ resp' = NoResponse
    /\ UNCHANGED <<db, next_id, now>>

\* lines 135-140: f.write raises IOError (a full volume); the handler
\* answers 500 and removes nothing
upload_io_error(file_id) ==
    /\ file_id \in DOMAIN uploads
    /\ \E chunk \in Chunks(uploads[file_id].sent) :
        LET u == uploads[file_id]
            file_size == u.file_size + Len(chunk)
        IN /\ ~too_large(file_size)
           /\ uploads' = DictDel(uploads, file_id)
           /\ resp' = Response("upload", file_id, 500,
                        [storage_path |-> u.storage_path,
                         sent |-> u.sent \o chunk])
    /\ UNCHANGED <<db, disk, next_id, now>>

\* lines 127, 142-166: file.read returns b"", the record is added, 201
upload_finish(file_id) ==
    /\ file_id \in DOMAIN uploads
    /\ LET u == uploads[file_id]
           file_data == file_data_of(file_id, u)
       IN /\ db' = add_file(db, file_id, file_data)
          /\ resp' = Response("upload", file_id, 201,
                        [expires_at |-> u.expires_at,
                         size |-> u.file_size,
                         storage_location |-> u.storage_path,
                         sent |-> u.sent])
    /\ uploads' = DictDel(uploads, file_id)
    /\ UNCHANGED <<disk, next_id, now>>

\* ----------------------------------------------------------- download_file
\* line 178: the expiry test of download
download_expired(expires_at, t) == fromisoformat(expires_at) < t

\* lines 169-195: the response of download_file
download_response(d, dk, t, file_id) ==
    IF ~has_file(d, file_id)
    THEN Response("download", file_id, 404, [detail |-> "File not found"])
    ELSE LET file_data == d.files[file_id]
             file_path == FilePath(file_data.storage_path, file_id)
         IN IF download_expired(file_data.expires_at, t)
            THEN Response("download", file_id, 410,
                          [detail |-> "File has expired"])
            ELSE IF file_path \notin DOMAIN dk
            THEN Response("download", file_id, 404,
                          [detail |-> "File not found in storage"])
            ELSE Response("download", file_id, 200,
                          [content |-> dk[file_path]])

\* the handler reads, answers download_response and changes nothing
download_file(file_id) ==
    /\ download_response(db, disk, now, file_id).status \in {200, 404, 410}
    /\ resp' = NoResponse
    /\ UNCHANGED <<db, disk, uploads, next_id, now>>

\* ----------------------------------------------------------- get_file_info
\* line 207: expires_at - utcnow(), in ticks
remaining_of(expires_at, t) == fromisoformat(expires_at) - t

\* line 217: max(0, remaining.total_seconds())
remaining_seconds_of(remaining) == IF remaining > 0 THEN remaining ELSE 0

\* an expired flag that is still false at the instant of expiry
expired_of_strict(remaining) == remaining < 0

\* line 218
expired_of(remaining) == remaining <= 0

\* lines 198-219: the response of get_file_info
info_response(d, t, file_id) ==
    IF ~has_file(d, file_id)
    THEN Response("info", file_id, 404, [detail |-> "File not found"])
    ELSE LET file_data == d.files[file_id]
             remaining == remaining_of(file_data.expires_at, t)
         IN Response("info", file_id, 200,
                [id |-> file_id,
                 size |-> file_data.size,
                 storage_location |-> file_data.storage_path,
                 expires_at |-> file_data.expires_at,
                 remaining_seconds |-> remaining_seconds_of(remaining),
                 expired |-> expired_of(remaining)])

\* the handler reads, answers info_response and changes nothing
get_file_info(file_id) ==
    /\ info_response(db, now, file_id).status \in {200, 404}
    /\ resp' = NoResponse
    /\ UNCHANGED <<db, disk, uploads, next_id, now>>

\* ------------------------------------------------------------- delete_file
\* os.remove inside try/except OSError (lines 97-100, 231-234): the file
\* goes unless the call raises; `removed` is FALSE when it raised for a
\* file that is there (EACCES, EBUSY, EIO, ...)
os_remove(dk, file_path, removed) ==
    IF file_path \in DOMAIN dk /\ removed THEN DictDel(dk, file_path) ELSE dk

\* lines 222-228: no record, 404
delete_missing(file_id) ==
    /\ ~has_file(db, file_id)
    /\ resp' = Response("delete", file_id, 404, [detail |-> "File not found"])
    /\ UNCHANGED <<db, disk, uploads, next_id, now>>

\* lines 222-237 with a record
delete_file(file_id) ==
    /\ has_file(db, file_id)
    /\ \E removed \in BOOLEAN :
        LET file_data == db.files[file_id]
            file_path == FilePath(file_data.storage_path, file_id)
        IN /\ disk' = os_remove(disk, file_path, removed)
           /\ resp' = Response("delete", file_id, 200,
                        [status |-> "deleted",
                         storage_path |-> file_data.storage_path,
                         removed |-> removed])
    /\ db' = db_delete_file(db, file_id)
    /\ UNCHANGED <<uploads, next_id, now>>

\* --------------------------------------------------- cleanup_expired_files
\* lines 93-101: the loop over expired_files; `stuck` are the files whose
\* os.remove raises.  The result does not depend on the order of the list.
RECURSIVE cleanup_loop(_, _, _, _)
cleanup_loop(d, dk, expired_files, stuck) ==
    IF expired_files = {} THEN [db |-> d, disk |-> dk]
    ELSE LET file_id == CHOOSE x \in expired_files : TRUE
             rest == expired_files \ {file_id}
         IN IF has_file(d, file_id)
            THEN LET file_path ==
                        FilePath(d.files[file_id].storage_path, file_id)
                 IN cleanup_loop(db_delete_file(d, file_id),
                                 os_remove(dk, file_path, file_id \notin stuck),
                                 rest, stuck)
            ELSE cleanup_loop(d, dk, rest, stuck)

\* lines 103-106: the process is started again on the same DB_FILE and
\* storage; the handlers of the old process are gone, their partial files
\* stay; cleanup runs before any request is served
startup_event ==
    /\ \E stuck \in SUBSET get_expired_files(db, now) :
        LET after == cleanup_loop(db, disk, get_expired_files(db, now), stuck)
        IN /\ db' = after.db
           /\ disk' = after.disk
    /\ uploads' = EmptyDict
    /\ resp' = NoResponse
    /\ UNCHANGED <<next_id, now>>

\* the clock advances
Tick ==
    /\ now < MaxTime
    /\ now' = now + 1
    /\ resp' = NoResponse
    /\ UNCHANGED <<db, disk, uploads, next_id>>

Next ==
    \/ upload_reject
    \/ upload_start
    \/ \E file_id \in Handles : upload_chunk(file_id)
    \/ \E file_id \in Handles : upload_too_large(file_id)
    \/ \E file_id \in Handles : upload_io_error(file_id)
    \/ \E file_id \in Handles : upload_finish(file_id)
    \/ \E file_id \in Handles : download_file(file_id)
    \/ \E file_id \in Handles : get_file_info(file_id)
    \/ \E file_id \in Handles : delete_missing(file_id)
    \/ \E file_id \in Handles : delete_file(file_id)
    \/ startup_event
    \/ Tick

Spec == Init /\ [][Next]_vars

\* ------------------------------------------------ one request at a time
\* Creates run one after another (a create starts only when none is
\* streaming), nothing is deleted and the process is not restarted.
SeqHandles == 1..(Len(STORAGE_PATHS) + 1)

seq_upload_start ==
    /\ uploads = EmptyDict
    /\ upload_begin(Len(STORAGE_PATHS) + 1)

SeqNext ==
    \/ upload_reject
    \/ seq_upload_start
    \/ \E file_id \in SeqHandles : upload_chunk(file_id)
    \/ \E file_id \in SeqHandles : upload_too_large(file_id)
    \/ \E file_id \in SeqHandles : upload_io_error(file_id)
    \/ \E file_id \in SeqHandles : upload_finish(file_id)
    \/ \E file_id \in SeqHandles : download_file(file_id)
    \/ \E file_id \in SeqHandles : get_file_info(file_id)
    \/ Tick

SpecSeq == Init /\ [][SeqNext]_vars
\* ------------------------------------------------------------- properties
\* the records whose volume field is storage_path
RecordsOn(storage_path) ==
    {file_id \in DOMAIN db.files :
        db.files[file_id].storage_path = storage_path}

\* the stored counter of a volume, an absent one counting as 0
Counter(stats, storage_path) == DictGet(stats, storage_path, 0)

\* C1: in every reachable state the stored counter of each volume (absent
\* = 0) equals the number of records whose volume field is that volume,
\* and no stored counter is negative.
C1_CountersMatchRecords ==
    /\ \A p \in Paths :
        Counter(db.stats, p) = Cardinality(RecordsOn(p))
    /\ \A p \in DOMAIN db.stats : db.stats[p] >= 0

\* a delete has just taken one of two records off a volume
C1_Witness ==
    /\ resp.op = "delete"
    /\ resp.status = 200
    /\ Counter(db.stats, resp.body.storage_path) = 1
    /\ Cardinality(RecordsOn(resp.body.storage_path)) = 1

\* C2: for every handle with a record, a download at any now with
\* now >= expires_at answers 410 (Expired), the instant now = expires_at
\* included.
C2_ExpiredNeverServed ==
    \A file_id \in DOMAIN db.files :
        db.files[file_id].expires_tick <= now
            => download_response(db, disk, now, file_id).status = 410

\* C3 as stated: right after a create succeeded, a download returns the
\* bytes submitted and info reports their number as the size.
C3_ReadBackAfterCreate ==
    (resp.op = "upload" /\ resp.status = 201)
        => /\ download_response(db, disk, now, resp.id).status = 200
           /\ download_response(db, disk, now, resp.id).body.content
                    = resp.body.sent
           /\ info_response(db, now, resp.id).status = 200
           /\ info_response(db, now, resp.id).body.size
                    = Len(resp.body.sent)

\* C3 as amended: right after a create succeeded info reports the number of
\* bytes submitted as the size, and if the object is not yet expired
\* (now < expires_at) a download returns the bytes submitted.
C3_ReadBackUnlessExpired ==
    (resp.op = "upload" /\ resp.status = 201)
        => /\ info_response(db, now, resp.id).status = 200
           /\ info_response(db, now, resp.id).body.size
                    = Len(resp.body.sent)
           /\ now < db.files[resp.id].expires_tick
                => /\ download_response(db, disk, now, resp.id).status = 200
                   /\ download_response(db, disk, now, resp.id).body.content
                            = resp.body.sent

\* a create of a file of two chunks has just succeeded, not yet expired
C3_Witness ==
    /\ resp.op = "upload"
    /\ resp.status = 201
    /\ Len(resp.body.sent) = MAX_FILE_SIZE
    /\ now < db.files[resp.id].expires_tick

\* C4: a create whose streamed byte count exceeds MAX_FILE_SIZE, whatever
\* the declared size, ends with 413, and then there is no record for its
\* handle, the counters are what they were and no file of that handle is
\* on the chosen volume.
C4_TooLargeLeavesNothing ==
    [][\A file_id \in DOMAIN uploads :
        (/\ resp'.op = "upload"
         /\ resp'.id = file_id
         /\ resp'.status # 0
         /\ Len(resp'.body.sent) > MAX_FILE_SIZE)
            => /\ resp'.status = 413
               /\ ~has_file(db', file_id)
               /\ db'.stats = db.stats
               /\ FilePath(uploads[file_id].storage_path, file_id)
                        \notin DOMAIN disk']_vars

\* a stream one byte over the limit has just been refused, after a
\* partial file was written, while a record is on the same volume
C4_Witness ==
    /\ resp.op = "upload"
    /\ resp.status = 413
    /\ resp.id \in Handles
    /\ Len(resp.body.sent) = MAX_FILE_SIZE + 1
    /\ Counter(db.stats, resp.body.storage_path) = 1

\* C5: a create whose declared size exceeds MAX_FILE_SIZE is answered 413
\* before anything is read (it is never accepted for streaming): no
\* handle is issued, no volume chosen, no file created, and the document
\* and the counters are unchanged.
C5_DeclaredSizeRefusedUpfront ==
    [][(/\ resp'.op = "upload"
        /\ (resp'.status = 0 \/ resp'.id = 0)
        /\ resp'.body.size_hint > MAX_FILE_SIZE)
            => /\ resp'.status = 413
               /\ UNCHANGED <<db, disk, uploads, next_id>>]_vars

\* a declared size over the limit has just been refused while another
\* upload is streaming and a file is on disk
C5_Witness ==
    /\ resp.op = "upload"
    /\ resp.status = 413
    /\ resp.id = 0
    /\ resp.body.size_hint = MAX_FILE_SIZE + 1
    /\ uploads # EmptyDict

\* C6: info on a handle with a record always answers 200 with the
\* metadata; remaining_seconds is max(0, expires_at - now) and expired is
\* true exactly when the remaining time is not positive.
C6_InfoOfExistingRecord ==
    \A file_id \in DOMAIN db.files :
        LET r == info_response(db, now, file_id)
            left == db.files[file_id].expires_tick - now
        IN /\ r.status = 200
           /\ r.body.size = db.files[file_id].size
           /\ r.body.storage_location = db.files[file_id].storage_path
           /\ r.body.remaining_seconds = (IF left > 0 THEN left ELSE 0)
           /\ r.body.expired = ~(left > 0)
           /\ r.body.expired = (r.body.remaining_seconds = 0)

\* a record at the very instant of its expiry, and one that is past it
C6_Witness ==
    /\ \E file_id \in DOMAIN db.files :
        /\ db.files[file_id].expires_tick = now
        /\ info_response(db, now, file_id).body.expired
    /\ \E file_id \in DOMAIN db.files :
        /\ db.files[file_id].expires_tick < now
        /\ info_response(db, now, file_id).body.expired

\* C7: delete of a handle with a record answers 200, and right afterwards
\* info on the handle answers 404 and the handle has no record, so that a
\* second delete answers 404; delete of a handle without a record answers
\* 404 and changes nothing.
C7_DeleteThenNotFound ==
    [][\A file_id \in Handles :
        (resp'.op = "delete" /\ resp'.id = file_id)
            => IF has_file(db, file_id)
               THEN /\ resp'.status = 200
                    /\ info_response(db', now', file_id).status = 404
                    /\ ~has_file(db', file_id)
               ELSE /\ resp'.status = 404
                    /\ UNCHANGED <<db, disk, uploads, next_id, now>>]_vars

\* a record has just been deleted while another record is still there
C7_Witness ==
    /\ resp.op = "delete"
    /\ resp.status = 200
    /\ db.files # EmptyDict

\* C8: after delete answered 200 there is no file at (volume, handle), no
\* record of the handle, and the counter of the volume is one lower than
\* before, whatever the removal of the bytes did.
C8_DeleteLeavesNoBytesNoRecord ==
    [][\A file_id \in DOMAIN db.files :
        (resp'.op = "delete" /\ resp'.id = file_id /\ resp'.status = 200)
            => LET storage_path == db.files[file_id].storage_path
               IN /\ FilePath(storage_path, file_id) \notin DOMAIN disk'
                  /\ ~has_file(db', file_id)
                  /\ Counter(db'.stats, storage_path)
                        = Counter(db.stats, storage_path) - 1]_vars

\* the position of a path in STORAGE_PATHS
PathIndex(storage_path) ==
    CHOOSE i \in 1..Len(STORAGE_PATHS) : STORAGE_PATHS[i] = storage_path

\* C9: for the counters of every reachable state, select_storage_path
\* returns a configured path of minimal count (absent = 0), and of the
\* paths of minimal count the first in the order of STORAGE_PATHS.
C9_LeastLoadedFirstDeclared ==
    LET chosen == select_storage_path(db.stats)
    IN /\ chosen \in Paths
       /\ \A p \in Paths :
            /\ Counter(db.stats, chosen) <= Counter(db.stats, p)
            /\ PathIndex(p) < PathIndex(chosen)
                => Counter(db.stats, p) > Counter(db.stats, chosen)

\* an upload has been placed on the second path while the first path
\* holds a record and the second and third tie at zero
C9_Witness ==
    /\ Counter(db.stats, STORAGE_PATHS[1]) = 1
    /\ Counter(db.stats, STORAGE_PATHS[2]) = 0
    /\ Counter(db.stats, STORAGE_PATHS[3]) = 0
    /\ \E file_id \in DOMAIN uploads :
        uploads[file_id].storage_path = STORAGE_PATHS[2]

\* C10: with creates one after another from empty volumes and no delete,
\* once as many creates have succeeded as there are volumes, every volume
\* holds exactly one object.
C10_OneObjectPerVolume ==
    Cardinality(DOMAIN db.files) = Len(STORAGE_PATHS)
        => \A p \in Paths :
            /\ Cardinality(RecordsOn(p)) = 1
            /\ Counter(db.stats, p) = 1

\* the third create has just succeeded
C10_Witness ==
    /\ resp.op = "upload"
    /\ resp.status = 201
    /\ Cardinality(DOMAIN db.files) = Len(STORAGE_PATHS)

\* the records whose expiry instant is at or before t
ExpiredAt(d, t) ==
    {file_id \in DOMAIN d.files : d.files[file_id].expires_tick <= t}

\* C11: a reaper pass at now removes exactly the records with
\* expires_at <= now, together with their bytes; every other record and
\* its bytes are untouched, each counter drops by the number of records
\* reclaimed from its volume, and a pass with nothing expired changes
\* nothing.
C11_ReaperRemovesExactlyExpired ==
    [][startup_event =>
        LET expired == ExpiredAt(db, now)
        IN /\ DOMAIN db'.files = DOMAIN db.files \ expired
           /\ \A file_id \in DOMAIN db.files \ expired :
                LET file_path ==
                        FilePath(db.files[file_id].storage_path, file_id)
                IN /\ db'.files[file_id] = db.files[file_id]
                   /\ file_path \in DOMAIN disk'
                   /\ disk'[file_path] = disk[file_path]
           /\ \A file_id \in expired :
                FilePath(db.files[file_id].storage_path, file_id)
                    \notin DOMAIN disk'
           /\ \A p \in Paths :
                Counter(db'.stats, p) =
                    Counter(db.stats, p)
                        - Cardinality({file_id \in expired :
                            db.files[file_id].storage_path = p})
           /\ expired = {} => (db' = db /\ disk' = disk)]_vars

\* ------------------------------------------------- concurrent creates only
\* Any number of creates stream at the same time and every one of them
\* succeeds (no size refusal, no write error); nothing is deleted and the
\* process is not restarted.
CreateNext ==
    \/ upload_start
    \/ \E file_id \in Handles : upload_chunk(file_id)
    \/ \E file_id \in Handles : upload_finish(file_id)
    \/ \E file_id \in Handles : download_file(file_id)
    \/ \E file_id \in Handles : get_file_info(file_id)
    \/ Tick

SpecCreate == Init /\ [][CreateNext]_vars

\* the sum of the stored counters of the volumes in S
RECURSIVE SumCounters(_, _)
SumCounters(stats, S) ==
    IF S = {} THEN 0
    ELSE LET p == CHOOSE x \in S : TRUE
         IN Counter(stats, p) + SumCounters(stats, S \ {p})

\* the creates that have succeeded: the handles issued and no longer
\* streaming
Succeeded == (1..(next_id - 1)) \ DOMAIN uploads

\* C12: with creates running concurrently, all succeeding, and no delete,
\* whatever the interleaving: the counters sum to the number K of creates
\* that have succeeded, exactly those K records exist, and the bytes of
\* each are on its volume in full.
C12_NoCreateLost ==
    /\ SumCounters(db.stats, Paths) = Cardinality(Succeeded)
    /\ DOMAIN db.files = Succeeded
    /\ \A file_id \in Succeeded :
        LET file_path == FilePath(db.files[file_id].storage_path, file_id)
        IN /\ file_path \in DOMAIN disk
           /\ Len(disk[file_path]) = db.files[file_id].size

\* the first create commits after the second, which began later and
\* has already committed
C12_Witness ==
    /\ resp.op = "upload"
    /\ resp.status = 201
    /\ resp.id = 1
    /\ has_file(db, 2)

\* ------------------------------------------------- a backing file vanishes
\* The environment takes the file of a record off its volume (removed by
\* hand, volume lost); download_file tests for this at line 185.
file_lost(file_id) ==
    /\ has_file(db, file_id)
    /\ LET file_path == FilePath(db.files[file_id].storage_path, file_id)
       IN /\ file_path \in DOMAIN disk
          /\ disk' = DictDel(disk, file_path)
    /\ resp' = NoResponse
    /\ UNCHANGED <<db, uploads, next_id, now>>

LossNext ==
    \/ Next
    \/ \E file_id \in Handles : file_lost(file_id)

SpecLoss == Init /\ [][LossNext]_vars

\* the records whose backing file is not on its volume
Missing ==
    {file_id \in DOMAIN db.files :
        FilePath(db.files[file_id].storage_path, file_id) \notin DOMAIN disk}

\* C13: a download of a record whose backing file is absent answers 404
\* (NotFound) when the record is not expired (now < expires_at) and 410
\* (Expired) when it is expired (now >= expires_at), expiry being tested
\* first.
C13_MissingBytesOutcome ==
    \A file_id \in Missing :
        download_response(db, disk, now, file_id).status =
            IF db.files[file_id].expires_tick <= now THEN 410 ELSE 404

\* C14: in every reachable state every record has its file on the volume
\* the record names, at the path made of (volume, handle), holding as many
\* bytes as the record's size; no handle that is still streaming has a
\* record, and at the moment a create commits the file holds exactly the
\* bytes the client sent.
C14_RecordHasItsBytes ==
    /\ \A file_id \in DOMAIN db.files :
        LET file_path == FilePath(db.files[file_id].storage_path, file_id)
        IN /\ file_path \in DOMAIN disk
           /\ Len(disk[file_path]) = db.files[file_id].size
           /\ file_id \notin DOMAIN uploads
    /\ (resp.op = "upload" /\ resp.status = 201)
        => disk[FilePath(resp.body.storage_location, resp.id)]
                = resp.body.sent

\* a record with all its bytes exists while another create has written
\* part of its file and has no record yet
C14_Witness ==
    \E file_id \in DOMAIN db.files, other \in DOMAIN uploads :
        /\ db.files[file_id].size = MAX_FILE_SIZE
        /\ uploads[other].file_size > 0
        /\ ~has_file(db, other)

\* C15: a create that ends in a write failure leaves no record, changes
\* no counter, and its partial file is removed from the volume.
C15_AbortedCreateLeavesNothing ==
    [][(resp'.op = "upload" /\ resp'.status = 500)
        => /\ ~has_file(db', resp'.id)
           /\ db' = db
           /\ resp'.id \notin DOMAIN uploads'
           /\ FilePath(resp'.body.storage_path, resp'.id)
                \notin DOMAIN disk']_vars

\* C16: when the removal of the bytes of one expired object fails during a
\* reaper pass, the pass goes on: every other record that was expired
\* (expires_at <= now) when the pass began is reclaimed, record and bytes,
\* and its counter decremented.
C16_ReaperFailureIsolated ==
    [][\A failed \in get_expired_files(db, now) :
        LET after == cleanup_loop(db, disk, get_expired_files(db, now),
                                  {failed})
        IN (/\ db' = after.db
            /\ disk' = after.disk
            /\ uploads' = EmptyDict
            /\ resp' = NoResponse
            /\ FilePath(db.files[failed].storage_path, failed)
                    \in DOMAIN disk')
            => \A file_id \in ExpiredAt(db, now) \ {failed} :
                LET storage_path == db.files[file_id].storage_path
                IN /\ ~has_file(db', file_id)
                   /\ FilePath(storage_path, file_id) \notin DOMAIN disk'
                   /\ Counter(db'.stats, storage_path)
                        < Counter(db.stats, storage_path)]_vars

\* C17: when a reaper pass fails to remove the bytes of an expired object,
\* the record of that object is still there after the pass: no step other
\* than an explicit delete removes a record whose bytes are still on the
\* volume after the step.
C17_RecordOutlivesItsBytes ==
    [][(resp'.op # "delete") =>
        \A file_id \in DOMAIN db.files :
            FilePath(db.files[file_id].storage_path, file_id)
                    \in DOMAIN disk'
                => has_file(db', file_id)]_vars

\* ------------------------------------------------- the process keeps running
\* The steps of one run of the process: every handler, and no second
\* startup_event.  The source schedules nothing besides the handlers
\* (cleanup_expired_files is called at line 106 only), so the run has no
\* step of its own that reaps.
RunNext ==
    \/ upload_reject
    \/ upload_start
    \/ \E file_id \in Handles : upload_chunk(file_id)
    \/ \E file_id \in Handles : upload_too_large(file_id)
    \/ \E file_id \in Handles : upload_io_error(file_id)
    \/ \E file_id \in Handles : upload_finish(file_id)
    \/ \E file_id \in Handles : download_file(file_id)
    \/ \E file_id \in Handles : get_file_info(file_id)
    \/ \E file_id \in Handles : delete_missing(file_id)
    \/ \E file_id \in Handles : delete_file(file_id)
    \/ Tick

\* a streaming upload goes on: the event loop resumes the handler at its
\* await (line 127) until it answers
upload_step(file_id) ==
    \/ upload_chunk(file_id)
    \/ upload_too_large(file_id)
    \/ upload_io_error(file_id)
    \/ upload_finish(file_id)

\* The clock advances and the event loop resumes every suspended handler;
\* requests (new uploads, reads, deletes) arrive or not as clients choose.
SpecRun ==
    /\ Init
    /\ [][RunNext]_vars
    /\ WF_vars(Tick)
    /\ \A file_id \in Handles : WF_vars(upload_step(file_id))

\* C18: while the process keeps running, every record whose expires_at has
\* passed is eventually reclaimed, with no delete asked for and no restart.
C18_ExpiredEventuallyReclaimed ==
    \A file_id \in Handles :
        (has_file(db, file_id) /\ db.files[file_id].expires_tick < now)
            ~> ~has_file(db, file_id)

\* C19: whatever the interleaving of creates, deletes and reaper passes,
\* the record of a handle changes only through operations on that handle:
\* while it exists its fields do not change; it is removed only by a
\* delete of that handle or by a reaper pass when it is expired; a record
\* appears only when the create that was issued that handle commits; and
\* a handle is issued once, so a removed record never comes back.
C19_RecordChangesOnlyByOwnOps ==
    [][/\ next_id' >= next_id
       /\ \A file_id \in Handles :
            /\ (has_file(db, file_id) \/ file_id \in DOMAIN uploads)
                => file_id < next_id
            /\ (has_file(db, file_id) /\ has_file(db', file_id))
                => db'.files[file_id] = db.files[file_id]
            /\ (has_file(db, file_id) /\ ~has_file(db', file_id))
                => \/ /\ resp'.op = "delete"
                      /\ resp'.id = file_id
                      /\ resp'.status = 200
                   \/ /\ resp' = NoResponse
                      /\ uploads' = EmptyDict
                      /\ db.files[file_id].expires_tick <= now
            /\ (~has_file(db, file_id) /\ has_file(db', file_id))
                => /\ file_id \in DOMAIN uploads
                   /\ file_id \notin DOMAIN uploads'
                   /\ resp'.op = "upload"
                   /\ resp'.id = file_id
                   /\ resp'.status = 201
            /\ (file_id \notin DOMAIN uploads /\ file_id \in DOMAIN uploads')
                => /\ file_id = next_id
                   /\ next_id' = next_id + 1]_vars

\* a delete of the second handle has just answered while the record of the
\* first, committed earlier, is still there and not expired
C19_Witness ==
    /\ resp.op = "delete"
    /\ resp.status = 200
    /\ resp.id = 2
    /\ has_file(db, 1)
    /\ db.files[1].expires_tick > now

\* C20: at any single instant inspect, download and the reaper agree on
\* expiry: if info reports expired = true for a record then a download at
\* the same instant does not return the bytes, and a reaper pass at that
\* instant selects the record exactly when info reports it expired.
C20_ExpiryViewsAgree ==
    \A file_id \in DOMAIN db.files :
        LET expired == info_response(db, now, file_id).body.expired
        IN /\ expired
                => download_response(db, disk, now, file_id).status # 200
           /\ file_id \in get_expired_files(db, now) <=> expired
====
